---- MODULE Spec2Model ----
(***************************************************************************)
(* Model of better-splitwise (src/app.py): the SQLite ledger tables, the   *)
(* Streamlit handlers that write them, and compute_settlements, the        *)
(* settlement engine that reads them.                                      *)
(*                                                                         *)
(* Money is a REAL column in the source.  It is modelled here as an        *)
(* integer number of currency units, on which the source's +, - and        *)
(* comparisons are exact; the rounding of binary floating point on         *)
(* fractional amounts is not modelled.  The form handlers divide, so they  *)
(* store shares in units of 1/Scale of the amount typed in the form.       *)
(***************************************************************************)
EXTENDS Integers, Sequences, FiniteSets, TLC

\* ---------------------------------------------------------------- bounds
NumUsers    == 3   \* rows of the users table
MaxExpenses == 2   \* rows of the expenses table
MaxParts    == 2   \* expense_participants rows of one expense
MaxShare    == 1   \* largest share of a row the engine is run on
MaxPayments == 2   \* rows of the payments table
MaxAmount   == 2   \* largest amount of a payments row the engine is run on
MaxFormUsers  == 2 \* rows of the users table the forms fill
MaxFormRows   == 1 \* rows of the expenses and of the payments table the forms fill
MaxFormAmount == 1 \* largest value of the Amount and Amount Paid inputs
MaxExpenseId  == 2 \* largest expenses.id the AUTOINCREMENT counter hands out

AllNames == <<"A", "B", "C", "D", "E", "F">>
Names    == {AllNames[i] : i \in 1..NumUsers}
UserIds  == 1..NumUsers

\* Shares computed by the forms are stored in units of 1/Scale, so that
\* amount / n and amount * pct / 100 are exact.
Scale == 2 * 2 * 3 * 100

VARIABLES
  users,                 \* users table: users[id] is the name of user id
  group_selected,        \* a group exists and is the selected one
  group_members,         \* user ids of the selected group's group_members rows
  expenses,              \* expenses table, in rowid order
  expense_seq,           \* AUTOINCREMENT counter of expenses.id
  expense_participants,  \* expense_participants table, in rowid order
  payments,              \* payments table, in rowid order
  message,               \* text of the st.error / st.success of the last click
  pc,                    \* position in compute_settlements, or "ui"
  pi,                    \* index of the next payment of the loop of line 128
  debts,                 \* the nested defaultdict of line 110
  per_expense_readable,  \* list of line 111
  per_expense_text,      \* list of line 153
  final_settlements,     \* list of line 139
  net_balance            \* defaultdict of line 159

tables  == <<expenses, expense_participants, payments>>
vars    == <<users, group_selected, group_members, expenses, expense_seq,
             expense_participants, payments, message, pc, pi, debts,
             per_expense_readable, per_expense_text, final_settlements,
             net_balance>>

\* ---------------------------------------------------------------- helpers
Range(s) == {s[i] : i \in 1..Len(s)}

Has(s, x) == \E i \in 1..Len(s) : s[i] = x

RemoveAt(s, k) == [i \in 1..(Len(s) - 1) |-> IF i < k THEN s[i] ELSE s[i + 1]]

Swap(s, i, j) == [s EXCEPT ![i] = s[j], ![j] = s[i]]

RECURSIVE SumSeq(_)
SumSeq(s) == IF s = <<>> THEN 0 ELSE Head(s) + SumSeq(Tail(s))

SeqsUpTo(S, n) == UNION {[1..k -> S] : k \in 0..n}

\* every id of the users table maps to its name (dict(c.fetchall()))
id_to_name(utab) == [id \in 1..Len(utab) |-> utab[id]]

\* ------------------------------------------------- the debts defaultdict
\* A dict keeps its keys in insertion order, and the loops of Step C
\* iterate in that order: okeys is the key list of debts, ikeys[u] the key
\* list of debts[u], val[u][v] the value (0.0 until assigned).
EmptyDebts ==
  [okeys |-> <<>>,
   ikeys |-> [u \in UserIds |-> <<>>],
   val   |-> [u \in UserIds |-> [v \in UserIds |-> 0]]]

\* debts[u]: a missing key is created with an empty inner dict
TouchOuter(d, u) ==
  IF Has(d.okeys, u) THEN d ELSE [d EXCEPT !.okeys = Append(@, u)]

\* debts[u][v]: a missing key is created with value 0.0
Touch(d, u, v) ==
  LET d1 == TouchOuter(d, u)
  IN  IF Has(d1.ikeys[u], v) THEN d1
      ELSE [d1 EXCEPT !.ikeys[u] = Append(@, v)]

\* debts[u][v] += x
AddDebt(d, u, v, x) == [Touch(d, u, v) EXCEPT !.val[u][v] = @ + x]

\* debts[u][v] = x
SetDebt(d, u, v, x) == [Touch(d, u, v) EXCEPT !.val[u][v] = x]

\* ------------------------------------------------- Step A, lines 117-123
\* rows of expense_participants WHERE expense_id = eid
ParticipantsOf(ptab, eid) == SelectSeq(ptab, LAMBDA r : r.expense_id = eid)

\* line 121: the payer's own share is no debt
OwesPayer(uid, payer_id) == uid # payer_id

RECURSIVE FoldParticipants(_, _, _)
FoldParticipants(acc, e, rows) ==
  IF rows = <<>> THEN acc
  ELSE LET r == Head(rows)
           nxt == IF OwesPayer(r.user_id, e.payer_id)
                  THEN [debts    |-> AddDebt(acc.debts, r.user_id, e.payer_id, r.share),
                        readable |-> Append(acc.readable,
                                       <<r.user_id, e.payer_id, r.share, e.description>>)]
                  ELSE acc
       IN  FoldParticipants(nxt, e, Tail(rows))

RECURSIVE FoldExpenses(_, _, _)
FoldExpenses(acc, etab, ptab) ==
  IF etab = <<>> THEN acc
  ELSE FoldExpenses(
         FoldParticipants(acc, Head(etab), ParticipantsOf(ptab, Head(etab).id)),
         Tail(etab), ptab)

AccumulateDebts(etab, ptab) ==
  FoldExpenses([debts |-> EmptyDebts, readable |-> <<>>], etab, ptab)

\* ------------------------------------------------- Step B, lines 128-132
\* as ApplyPayment, with <= for the < of line 130
ApplyPaymentZeroReverses(d, p) ==
  LET d1 == AddDebt(d, p.payer_id, p.payee_id, -p.amount)
  IN  IF d1.val[p.payer_id][p.payee_id] <= 0
      THEN SetDebt(SetDebt(d1, p.payee_id, p.payer_id, -d1.val[p.payer_id][p.payee_id]),
                   p.payer_id, p.payee_id, 0)
      ELSE d1

\* as ApplyPayment, without the assignment of line 132
ApplyPaymentKeepsNegative(d, p) ==
  LET d1 == AddDebt(d, p.payer_id, p.payee_id, -p.amount)
  IN  IF d1.val[p.payer_id][p.payee_id] < 0
      THEN SetDebt(d1, p.payee_id, p.payer_id, -d1.val[p.payer_id][p.payee_id])
      ELSE d1

\* one iteration of the loop of line 128
ApplyPayment(d, p) ==
  LET d1 == AddDebt(d, p.payer_id, p.payee_id, -p.amount)
  IN  IF d1.val[p.payer_id][p.payee_id] < 0
      THEN SetDebt(SetDebt(d1, p.payee_id, p.payer_id, -d1.val[p.payer_id][p.payee_id]),
                   p.payer_id, p.payee_id, 0)
      ELSE d1

RECURSIVE ApplyPayments(_, _)
ApplyPayments(d, pays) ==
  IF pays = <<>> THEN d ELSE ApplyPayments(ApplyPayment(d, Head(pays)), Tail(pays))

\* ------------------------------------------------- Step C, lines 139-150
\* the (u, v) the two loops visit, in order: list(debts.keys()) and, for
\* each u, list(debts[u].keys()); the body adds no key to any debts[u]
\* that is already a key of debts
RECURSIVE PairsFrom(_, _)
PairsFrom(d, us) ==
  IF us = <<>> THEN <<>>
  ELSE [i \in 1..Len(d.ikeys[Head(us)]) |-> <<Head(us), d.ikeys[Head(us)][i]>>]
       \o PairsFrom(d, Tail(us))

VisitedPairs(d) == PairsFrom(d, d.okeys)

\* as AlreadyProcessed, without the test of line 143
AlreadyProcessedNever(processed, u, v) == FALSE

\* line 143
AlreadyProcessed(processed, u, v) == <<v, u>> \in processed

\* as SettlementOf, with >= for the > of line 146
SettlementOfZeroToo(name, u, v, net_amt) ==
  IF net_amt >= 0 THEN << <<name[u], name[v], net_amt>> >>
  ELSE << <<name[v], name[u], -net_amt>> >>

\* lines 146-149: the entries one pair appends
SettlementOf(name, u, v, net_amt) ==
  IF net_amt > 0 THEN << <<name[u], name[v], net_amt>> >>
  ELSE IF net_amt < 0 THEN << <<name[v], name[u], -net_amt>> >>
  ELSE <<>>

RECURSIVE FoldPairs(_, _, _)
FoldPairs(acc, pairs, name) ==
  IF pairs = <<>> THEN acc
  ELSE LET u == Head(pairs)[1]
           v == Head(pairs)[2]
           d == acc.debts
       IN  IF AlreadyProcessed(acc.processed_pairs, u, v)
           THEN FoldPairs(acc, Tail(pairs), name)
           ELSE FoldPairs(
                  [debts     |-> TouchOuter(d, v),      \* debts[v].get(u, 0)
                   final_settlements |-> acc.final_settlements
                                          \o SettlementOf(name, u, v, d.val[u][v] - d.val[v][u]),
                   processed_pairs |-> acc.processed_pairs \cup {<<u, v>>}],
                  Tail(pairs), name)

NetPairs(d, name) ==
  FoldPairs([debts |-> d, final_settlements |-> <<>>, processed_pairs |-> {}], VisitedPairs(d), name)

\* ------------------------------------------------- lines 158-162
\* net_balance[k] += x on a defaultdict(float); the dict is modelled as a
\* function whose domain is its key set
Bump(nb, k, x) ==
  IF k \in DOMAIN nb THEN [nb EXCEPT ![k] = @ + x] ELSE nb @@ (k :> x)

\* as ApplySettlement, without line 161
CreditOnly(nb, s) == Bump(nb, s[2], s[3])

\* as ApplySettlement, with += for the -= of line 161
CreditBoth(nb, s) == Bump(Bump(nb, s[1], s[3]), s[2], s[3])

\* one iteration of the loop of line 160
ApplySettlement(nb, s) == Bump(Bump(nb, s[1], -s[3]), s[2], s[3])

RECURSIVE FoldBalance(_, _)
FoldBalance(nb, final) ==
  IF final = <<>> THEN nb ELSE FoldBalance(ApplySettlement(nb, Head(final)), Tail(final))

NetBalance(final) == FoldBalance(<<>>, final)

\* ------------------------------------------------- lines 153-156
\* one statement per tuple, "<uid's name> owes <payer's name> <share> for
\* <desc>"; the share is kept as a number, its rendering is not modelled
PerExpenseText(readable, name) ==
  [i \in 1..Len(readable) |->
     <<name[readable[i][1]], "owes", name[readable[i][2]], readable[i][3],
       "for", readable[i][4]>>]

\* ------------------------------------------------- compute_settlements
compute_settlements(utab, etab, ptab, pays) ==
  LET a == AccumulateDebts(etab, ptab)
      c == NetPairs(ApplyPayments(a.debts, pays), id_to_name(utab))
  IN  [debts                |-> c.debts,
       per_expense_text     |-> PerExpenseText(a.readable, id_to_name(utab)),
       final_settlements    |-> c.final_settlements,
       net_balance          |-> NetBalance(c.final_settlements)]

\* ------------------------------------------------- the engine on a ledger
\* Ledgers the engine is run on.  An expense has its payer among its
\* participants and no participant twice (lines 237-240); a payment has
\* distinct payer and payee (line 282).  Amounts of payments range from 0,
\* the engine itself validating nothing.
ParticipantLists(payer) ==
  {ps \in UNION {[1..k -> [user_id : UserIds, share : 1..MaxShare]] : k \in 1..MaxParts} :
     /\ \A i, j \in 1..Len(ps) : i # j => ps[i].user_id # ps[j].user_id
     /\ \E i \in 1..Len(ps) : ps[i].user_id = payer}

ExpenseInputs ==
  UNION {{[payer_id |-> payer, parts |-> ps] : ps \in ParticipantLists(payer)} :
           payer \in UserIds}

PaymentRows ==
  {p \in [payer_id : UserIds, payee_id : UserIds, amount : 0..MaxAmount] :
     p.payer_id # p.payee_id}

ExpenseRows(es) ==
  [i \in 1..Len(es) |->
     [id |-> i, description |-> "expense", payer_id |-> es[i].payer_id,
      amount |-> SumSeq([j \in 1..Len(es[i].parts) |-> es[i].parts[j].share])]]

RECURSIVE ParticipantRows(_, _)
ParticipantRows(es, i) ==
  IF i > Len(es) THEN <<>>
  ELSE [j \in 1..Len(es[i].parts) |->
          [expense_id |-> i, user_id |-> es[i].parts[j].user_id,
           share |-> es[i].parts[j].share]]
       \o ParticipantRows(es, i + 1)

Init ==
  /\ users = [i \in 1..NumUsers |-> AllNames[i]]
  /\ group_selected = TRUE
  /\ group_members = UserIds
  /\ \E es \in SeqsUpTo(ExpenseInputs, MaxExpenses) :
       /\ expenses = ExpenseRows(es)
       /\ expense_seq = Len(es)
       /\ expense_participants = ParticipantRows(es, 1)
  /\ payments \in SeqsUpTo(PaymentRows, MaxPayments)
  /\ message = ""
  /\ pc = "start"
  /\ pi = 1
  /\ debts = EmptyDebts
  /\ per_expense_readable = <<>>
  /\ per_expense_text = <<>>
  /\ final_settlements = <<>>
  /\ net_balance = <<>>

ledger == <<users, group_selected, group_members, expenses, expense_seq,
            expense_participants, payments, message>>

\* lines 110-123
StepA ==
  /\ pc = "start"
  /\ LET a == AccumulateDebts(expenses, expense_participants)
     IN  /\ debts' = a.debts
         /\ per_expense_readable' = a.readable
  /\ pc' = "payments"
  /\ pi' = 1
  /\ UNCHANGED <<ledger, per_expense_text, final_settlements, net_balance>>

\* lines 128-132, one payment
PaymentStep ==
  /\ pc = "payments"
  /\ pi <= Len(payments)
  /\ debts' = ApplyPayment(debts, payments[pi])
  /\ pi' = pi + 1
  /\ UNCHANGED <<ledger, pc, per_expense_readable, per_expense_text,
                 final_settlements, net_balance>>

\* lines 135-150
NetStep ==
  /\ pc = "payments"
  /\ pi > Len(payments)
  /\ LET c == NetPairs(debts, id_to_name(users))
     IN  /\ debts' = c.debts
         /\ final_settlements' = c.final_settlements
  /\ pc' = "balance"
  /\ UNCHANGED <<ledger, pi, per_expense_readable, per_expense_text, net_balance>>

\* lines 152-164
BalanceStep ==
  /\ pc = "balance"
  /\ per_expense_text' = PerExpenseText(per_expense_readable, id_to_name(users))
  /\ net_balance' = NetBalance(final_settlements)
  /\ pc' = "done"
  /\ UNCHANGED <<ledger, pi, debts, per_expense_readable, final_settlements>>

Next == StepA \/ PaymentStep \/ NetStep \/ BalanceStep

Spec == Init /\ [][Next]_vars

\* ================================================= properties of the engine
Done == pc = "done"

Payer(s) == s[1]
Payee(s) == s[2]
Amt(s)   == s[3]

\* the final settlements between the users u and v, in either direction
EntriesBetween(final, u, v) ==
  {i \in 1..Len(final) : {Payer(final[i]), Payee(final[i])} = {users[u], users[v]}}

\* every stored payment is one the Record Payment form accepts
PositivePayments == \A k \in 1..Len(payments) : payments[k].amount > 0

\* N of the claim: what u owes v by the expenses and payments as stored
RECURSIVE SharesOwed(_, _, _, _)
SharesOwed(etab, ptab, u, v) ==
  IF ptab = <<>> THEN 0
  ELSE (IF /\ Head(ptab).user_id = u
           /\ \E i \in 1..Len(etab) :
                etab[i].id = Head(ptab).expense_id /\ etab[i].payer_id = v
        THEN Head(ptab).share ELSE 0)
       + SharesOwed(etab, Tail(ptab), u, v)

RECURSIVE Paid(_, _, _)
Paid(pays, u, v) ==
  IF pays = <<>> THEN 0
  ELSE (IF Head(pays).payer_id = u /\ Head(pays).payee_id = v
        THEN Head(pays).amount ELSE 0)
       + Paid(Tail(pays), u, v)

NetOwed(u, v) ==
  SharesOwed(expenses, expense_participants, u, v)
  - SharesOwed(expenses, expense_participants, v, u)
  - Paid(payments, u, v) + Paid(payments, v, u)

\* debts as the loop of line 128 finds them before its k-th payment
DebtsBeforePayment(k) ==
  ApplyPayments(AccumulateDebts(expenses, expense_participants).debts,
                SubSeq(payments, 1, k - 1))

\* C1: when a payment from A to B of amount p is applied while A owes B
\* d < p, then right after it A owes B 0 and B owes A p - d; and if it is
\* the last payment, the final settlements contain "B pays A p - d".
C1_Reversal ==
  \A k \in 1..Len(payments) :
    LET p == payments[k]
        A == p.payer_id
        B == p.payee_id
        d == DebtsBeforePayment(k).val[A][B]
    IN  (A # B /\ p.amount > d) =>
          /\ (pc = "payments" /\ pi = k + 1) =>
               (debts.val[A][B] = 0 /\ debts.val[B][A] = p.amount - d)
          /\ (Done /\ k = Len(payments)) =>
               <<users[B], users[A], p.amount - d>> \in Range(final_settlements)

\* an expense debt of 1 was overpaid by the last payment of 2, and the run is over
C1_Witness ==
  /\ Done
  /\ Len(payments) >= 1
  /\ LET p == payments[Len(payments)]
     IN  /\ DebtsBeforePayment(Len(payments)).val[p.payer_id][p.payee_id] = 1
         /\ p.amount = 2
         /\ <<users[p.payee_id], users[p.payer_id], 1>> \in Range(final_settlements)

\* the payments with the k-th and the (k+1)-th merged into one of their sum
Merged(pays, k) ==
  [i \in 1..(Len(pays) - 1) |->
     IF i < k THEN pays[i]
     ELSE IF i = k THEN [pays[k] EXCEPT !.amount = pays[k].amount + pays[k + 1].amount]
     ELSE pays[i + 1]]

\* C2: two payments on the same ordered pair, one after the other, give the
\* same debt mapping and the same final settlements as one payment of their sum.
C2_Cumulative ==
  (Done /\ PositivePayments) =>
    \A k \in 1..(Len(payments) - 1) :
      (/\ payments[k].payer_id = payments[k + 1].payer_id
       /\ payments[k].payee_id = payments[k + 1].payee_id) =>
        LET r == compute_settlements(users, expenses, expense_participants,
                                     Merged(payments, k))
        IN  /\ r.debts.val = debts.val
            /\ r.final_settlements = final_settlements

\* C3: two payments on different ordered pairs give the same debt mapping
\* and the same set of final settlements in either order.
C3_OrderIndependent ==
  (Done /\ PositivePayments) =>
    \A i, j \in 1..Len(payments) :
      (/\ i < j
       /\ <<payments[i].payer_id, payments[i].payee_id>>
            # <<payments[j].payer_id, payments[j].payee_id>>) =>
        LET r == compute_settlements(users, expenses, expense_participants,
                                     Swap(payments, i, j))
        IN  /\ r.debts.val = debts.val
            /\ Range(r.final_settlements) = Range(final_settlements)

\* C4: the final settlements hold at most one entry per unordered pair of users.
C4_OneEntryPerPair ==
  Done =>
    \A i, j \in 1..Len(final_settlements) :
      i # j => {Payer(final_settlements[i]), Payee(final_settlements[i])}
                 # {Payer(final_settlements[j]), Payee(final_settlements[j])}

\* two users owe each other a share from two different expenses, both
\* directions are keys of debts, and the pair got its one entry
C4_Witness ==
  /\ Done
  /\ \E u, v \in UserIds :
       /\ u # v
       /\ SharesOwed(expenses, expense_participants, u, v) > 0
       /\ SharesOwed(expenses, expense_participants, v, u) > 0
       /\ Has(debts.ikeys[u], v) /\ Has(debts.ikeys[v], u)
       /\ Cardinality(EntriesBetween(final_settlements, u, v)) = 1

\* C5: a payment of amount 0, wherever it stands among the payments, leaves
\* the set of final settlements what it is without that payment.
C5_ZeroPaymentNoOp ==
  Done =>
    \A k \in 1..Len(payments) :
      payments[k].amount = 0 =>
        Range(final_settlements) =
          Range(compute_settlements(users, expenses, expense_participants,
                                    RemoveAt(payments, k)).final_settlements)

\* a zero payment from a user who is owed money by its payee was processed
C5_Witness ==
  /\ Done
  /\ \E k \in 1..Len(payments) :
       /\ payments[k].amount = 0
       /\ DebtsBeforePayment(k).val[payments[k].payee_id][payments[k].payer_id] > 0
       /\ EntriesBetween(final_settlements, payments[k].payer_id, payments[k].payee_id) # {}

\* C6: a pair whose debts are equal after all payments gets no entry.
C6_FullCancellation ==
  Done =>
    \A u, v \in UserIds :
      (u # v /\ debts.val[u][v] = debts.val[v][u]) =>
        EntriesBetween(final_settlements, u, v) = {}

\* two users owe each other the same positive amount
C6_Witness ==
  /\ Done
  /\ \E u, v \in UserIds :
       /\ u # v
       /\ debts.val[u][v] = debts.val[v][u] /\ debts.val[u][v] > 0
       /\ EntriesBetween(final_settlements, u, v) = {}

\* what the final settlements give to and take from a participant
RECURSIVE ReceivedMinusPaid(_, _)
ReceivedMinusPaid(final, n) ==
  IF final = <<>> THEN 0
  ELSE (IF Payee(Head(final)) = n THEN Amt(Head(final)) ELSE 0)
       - (IF Payer(Head(final)) = n THEN Amt(Head(final)) ELSE 0)
       + ReceivedMinusPaid(Tail(final), n)

InSettlements(final) ==
  {Payer(final[i]) : i \in 1..Len(final)} \cup {Payee(final[i]) : i \in 1..Len(final)}

\* C7: net_balance has an entry exactly for the participants of the final
\* settlements, each the sum received minus the sum paid; an empty ledger
\* gives three empty outputs.
C7_BalanceFromSettlements ==
  Done =>
    /\ DOMAIN net_balance = InSettlements(final_settlements)
    /\ \A n \in DOMAIN net_balance :
         net_balance[n] = ReceivedMinusPaid(final_settlements, n)
    /\ (expenses = <<>> /\ payments = <<>>) =>
         (/\ per_expense_text = <<>>
          /\ final_settlements = <<>>
          /\ DOMAIN net_balance = {})

\* one user is settled by cancellation and has no entry while others have,
\* one of them with a balance of more than one settlement
C7_Witness ==
  /\ Done
  /\ \E u, v \in UserIds :
       /\ u # v
       /\ debts.val[u][v] = debts.val[v][u] /\ debts.val[u][v] > 0
       /\ users[u] \notin DOMAIN net_balance
       /\ users[v] \in DOMAIN net_balance

RECURSIVE SumOver(_, _)
SumOver(f, S) ==
  IF S = {} THEN 0
  ELSE LET x == CHOOSE y \in S : TRUE IN f[x] + SumOver(f, S \ {x})

\* C8: the net balances sum to zero.
C8_ZeroSum == Done => SumOver(net_balance, DOMAIN net_balance) = 0

\* three users have a balance, one of them from two settlements
C8_Witness ==
  /\ Done
  /\ Len(final_settlements) = 2
  /\ Cardinality(DOMAIN net_balance) = 3

\* C10: for every pair u, v the final settlements hold exactly "u pays v N"
\* if N > 0, exactly "v pays u -N" if N < 0, and nothing for the pair if N = 0.
C10_PairwiseConservation ==
  (Done /\ PositivePayments) =>
    \A u, v \in UserIds :
      u # v =>
        LET N == NetOwed(u, v)
            between == {final_settlements[i] : i \in EntriesBetween(final_settlements, u, v)}
        IN  /\ N > 0 => between = {<<users[u], users[v], N>>}
            /\ N < 0 => between = {<<users[v], users[u], -N>>}
            /\ N = 0 => between = {}

\* ================================================= the forms, lines 166-323
\* One group is modelled, the selected one.  The page is redrawn from the
\* tables by every run of the script (line 328) and holds no state of its
\* own, so the handlers leave the engine's variables alone.
engine == <<pc, pi, debts, per_expense_readable, per_expense_text,
            final_settlements, net_balance>>

\* lines 85-93: the id of a name, and the users table with the name in it
get_user_id(utab, name) ==
  IF Has(utab, name) THEN CHOOSE i \in 1..Len(utab) : utab[i] = name
  ELSE Len(utab) + 1

WithUser(utab, name) == IF Has(utab, name) THEN utab ELSE Append(utab, name)

\* lines 222-224 and 272-274: names of the group's members
group_member_names == {users[m] : m \in group_members}

SplitTypes == {"Equal", "Custom", "Percentage"}

\* values typed into the "<p>'s share" inputs (min_value 0.0)
ShareInputs == {39, 50}

\* lines 227-232: custom_shares has a key per selected participant for the
\* Custom and Percentage splits, and is empty for Equal
CustomShares(split_type, participants_input) ==
  IF split_type \in {"Custom", "Percentage"}
  THEN [Range(participants_input) -> ShareInputs]
  ELSE {<<>>}

\* what the Add Expense widgets can hold at a click
ExpenseForm(d, py, a, st, ps, cs) ==
  [desc |-> d, payer |-> py, amount |-> a, split_type |-> st,
   participants_input |-> ps, custom_shares |-> cs]

Descriptions == {"", "lunch"}
PayerInputs  == {""} \cup Names
FormAmounts  == 0..MaxFormAmount
ParticipantInputs == SeqsUpTo(group_member_names, MaxParts)

\* what the Record Payment widgets can hold at a click; a selectbox with no
\* option holds None
PaymentForms ==
  LET opts == IF group_member_names = {} THEN {"None"} ELSE group_member_names
  IN  [payer_payment : opts, payee_payment : opts, pay_amount : FormAmounts]

NoDuplicates(ps) == Len(ps) = Cardinality(Range(ps))

\* as ExpenseError, with amount < 0 for the amount <= 0 of line 235
ExpenseErrorZeroAmountPasses(f) ==
  IF f.desc = "" \/ f.payer = "" \/ f.amount < 0 \/ f.participants_input = <<>>
    THEN "All fields are required."
  ELSE IF ~Has(f.participants_input, f.payer)
    THEN "Payer must be in participants."
  ELSE IF ~NoDuplicates(f.participants_input)
    THEN "No duplicate participants allowed."
  ELSE ""

\* lines 235-240: the error of the form, "" if it has none
ExpenseError(f) ==
  IF f.desc = "" \/ f.payer = "" \/ f.amount <= 0 \/ f.participants_input = <<>>
    THEN "All fields are required."
  ELSE IF ~Has(f.participants_input, f.payer)
    THEN "Payer must be in participants."
  ELSE IF ~NoDuplicates(f.participants_input)
    THEN "No duplicate participants allowed."
  ELSE ""

\* line 253
total_pct(f) ==
  SumSeq([i \in 1..Len(f.participants_input) |-> f.custom_shares[f.participants_input[i]]])

\* lines 246-257: the shares, in units of 1/Scale
Shares(f) ==
  LET n == Len(f.participants_input)
  IN  [i \in 1..n |->
         CASE f.split_type = "Equal"      -> (f.amount * Scale) \div n
           [] f.split_type = "Custom"     -> f.custom_shares[f.participants_input[i]] * Scale
           [] f.split_type = "Percentage" ->
                (f.amount * f.custom_shares[f.participants_input[i]] * Scale) \div 100]

UIInit ==
  /\ users = <<>>
  /\ group_selected = FALSE
  /\ group_members = {}
  /\ expenses = <<>>
  /\ expense_seq = 0
  /\ expense_participants = <<>>
  /\ payments = <<>>
  /\ message = ""
  /\ pc = "ui"
  /\ pi = 1
  /\ debts = EmptyDebts
  /\ per_expense_readable = <<>>
  /\ per_expense_text = <<>>
  /\ final_settlements = <<>>
  /\ net_balance = <<>>

\* lines 171-175
AddGroup ==
  /\ pc = "ui"
  /\ group_selected' = TRUE
  /\ message' = "Group added!"
  /\ UNCHANGED <<users, group_members, expense_seq, tables, engine>>

\* lines 186-193
AddMember(name) ==
  /\ pc = "ui"
  /\ group_selected
  /\ Len(WithUser(users, name)) <= MaxFormUsers
  /\ users' = WithUser(users, name)
  /\ LET user_id == get_user_id(users, name)
     IN  IF user_id \notin group_members
         THEN /\ group_members' = group_members \cup {user_id}
              /\ message' = "Member added!"
         ELSE /\ UNCHANGED group_members
              /\ message' = ""
  /\ UNCHANGED <<group_selected, expense_seq, tables, engine>>

\* lines 197-213
DeleteGroup ==
  /\ pc = "ui"
  /\ group_selected
  /\ expense_participants' = <<>>
  /\ expenses' = <<>>
  /\ payments' = <<>>
  /\ group_members' = {}
  /\ group_selected' = FALSE
  /\ message' = "Group deleted!"
  /\ UNCHANGED <<users, expense_seq, engine>>

\* lines 234-267
AddExpense(f) ==
  /\ pc = "ui"
  /\ group_selected
  /\ IF ExpenseError(f) # ""
     THEN /\ message' = ExpenseError(f)
          /\ UNCHANGED <<users, expense_seq, tables>>
     ELSE IF f.split_type = "Percentage" /\ total_pct(f) # 100
     THEN /\ message' = "Percentages must sum to 100"
          /\ UNCHANGED <<users, expense_seq, tables>>
     ELSE LET payer_id        == get_user_id(users, f.payer)
              participant_ids == [i \in 1..Len(f.participants_input) |->
                                    get_user_id(users, f.participants_input[i])]
              shares          == Shares(f)
              expense_id      == expense_seq + 1
          IN  /\ Len(expenses) < MaxFormRows
              /\ expense_seq < MaxExpenseId
              /\ users' = WithUser(users, f.payer)
              /\ expenses' = Append(expenses,
                   [id |-> expense_id, description |-> f.desc,
                    payer_id |-> payer_id, amount |-> f.amount * Scale])
              /\ expense_seq' = expense_id
              /\ expense_participants' = expense_participants \o
                   [i \in 1..Len(participant_ids) |->
                      [expense_id |-> expense_id, user_id |-> participant_ids[i],
                       share |-> shares[i]]]
              /\ message' = "Expense added!"
              /\ UNCHANGED payments
  /\ UNCHANGED <<group_selected, group_members, engine>>

\* lines 282-285: the error of the form, "" if it has none
PaymentError(f) ==
  IF f.payer_payment = f.payee_payment THEN "Payer and payee cannot be the same."
  ELSE IF f.pay_amount <= 0 THEN "Amount must be positive."
  ELSE ""

\* lines 281-293
RecordPayment(f) ==
  /\ pc = "ui"
  /\ group_selected
  /\ IF PaymentError(f) # ""
     THEN /\ message' = PaymentError(f)
          /\ UNCHANGED payments
     ELSE /\ Len(payments) < MaxFormRows
          /\ payments' = Append(payments,
                [payer_id |-> get_user_id(users, f.payer_payment),
                 payee_id |-> get_user_id(users, f.payee_payment),
                 amount   |-> f.pay_amount * Scale])
          /\ message' = "Payment recorded!"
  /\ UNCHANGED <<users, group_selected, group_members, expenses, expense_seq,
                 expense_participants, engine>>

\* lines 319-323
DeleteExpense(eid) ==
  /\ pc = "ui"
  /\ group_selected
  /\ \E i \in 1..Len(expenses) : expenses[i].id = eid
  /\ expense_participants' = SelectSeq(expense_participants, LAMBDA r : r.expense_id # eid)
  /\ expenses' = SelectSeq(expenses, LAMBDA e : e.id # eid)
  /\ message' = ""
  /\ UNCHANGED <<users, group_selected, group_members, expense_seq, payments, engine>>

UINext ==
  \/ AddGroup
  \/ \E name \in Names : AddMember(name)
  \/ DeleteGroup
  \/ \E d \in Descriptions, py \in PayerInputs, a \in FormAmounts, st \in SplitTypes :
       \E ps \in ParticipantInputs :
         \E cs \in CustomShares(st, ps) : AddExpense(ExpenseForm(d, py, a, st, ps, cs))
  \/ \E f \in PaymentForms : RecordPayment(f)
  \/ \E eid \in 1..MaxExpenseId : DeleteExpense(eid)

UISpec == UIInit /\ [][UINext]_vars

\* ================================================= properties of the forms
\* the inputs the spec calls invalid, stated on the form's values
InvalidExpenseForm(f) ==
  \/ f.amount <= 0
  \/ f.payer \notin Range(f.participants_input)
  \/ \E i, j \in 1..Len(f.participants_input) :
       i # j /\ f.participants_input[i] = f.participants_input[j]
  \/ /\ f.split_type = "Percentage"
     /\ SumSeq([i \in 1..Len(f.participants_input) |->
                  f.custom_shares[f.participants_input[i]]]) # 100

InvalidPaymentForm(f) == f.pay_amount <= 0 \/ f.payer_payment = f.payee_payment

StoredRowsValid ==
  /\ \A i \in 1..Len(expenses) :
       /\ expenses[i].amount > 0
       /\ \E k \in 1..Len(expense_participants) :
            /\ expense_participants[k].expense_id = expenses[i].id
            /\ expense_participants[k].user_id = expenses[i].payer_id
  /\ \A i \in 1..Len(payments) :
       payments[i].amount > 0 /\ payments[i].payer_id # payments[i].payee_id

\* C9: a click of Add Expense or Record Payment on an invalid form leaves
\* the expenses, expense_participants and payments tables as they are, and
\* every stored expense has amount > 0 and its payer among its participants,
\* every stored payment amount > 0 and a payee other than its payer.
C9_InvalidRejected ==
  [][/\ \/ UNCHANGED tables
        \/ /\ \A d \in Descriptions, py \in PayerInputs, a \in FormAmounts, st \in SplitTypes :
                \A ps \in ParticipantInputs :
                  \A cs \in CustomShares(st, ps) :
                    LET f == ExpenseForm(d, py, a, st, ps, cs)
                    IN  InvalidExpenseForm(f) => ~AddExpense(f)
           /\ \A f \in PaymentForms : InvalidPaymentForm(f) => ~RecordPayment(f)
     /\ StoredRowsValid']_vars

\* with an expense and a payment stored, a Percentage form whose
\* percentages do not sum to 100 (50 and 39, say) has just been turned down
C9_Witness ==
  /\ pc = "ui"
  /\ expenses # <<>>
  /\ payments # <<>>
  /\ message = "Percentages must sum to 100"

====
